---------------------------- MODULE Spec2Model ----------------------------
(***************************************************************************)
(* Multi-instance work claiming of generate_repo.py: several generator     *)
(* processes share progress.json and partition the catalog's libraries by  *)
(* claim_library / mark_done / mark_failed.                                *)
(*                                                                         *)
(* The model follows the system calls of the store operations: the         *)
(* existence test and the write_text of init_progress, flock, json.load,   *)
(* truncate, the release of the lock, and the flush of the buffered        *)
(* json.dump output when the with-block closes the file.  A record's       *)
(* "updated" timestamp is not modelled: no decision of the code reads it.  *)
(***************************************************************************)
EXTENDS Integers, Sequences, FiniteSets, TLC

\* Number of generator processes started against the same progress file.
NumProcs == 2

Procs == 1..NumProcs

\* MASTER-LIBRARY-LIST.md as parsed by load_libraries: slug and the set of
\* k for which the lowercased Tier field contains 'tier k'.
libraries ==
  << [slug |-> "a", tier |-> {1}], [slug |-> "b", tier |-> {}] >>

\* product-config.json as loaded by load_product_config.
product_config == [tier1 |-> {}, tier2 |-> {"b"}, tier3 |-> {}]

Slugs == {libraries[k].slug : k \in 1..Len(libraries)}

VARIABLES
  file,        \* progress.json on disk
  lockEX,      \* holder of the exclusive flock, 0 when none
  lockSH,      \* holders of the shared flock
  alive,       \* alive[p]: process p has not been killed
  pc,          \* position of each process in main / the store operations
  to_process,  \* main's to_process, as the sequence of slugs
  idx,         \* main's loop position in to_process (enumerate from 1)
  op,          \* the status argument of the running store call, or "read"
  data,        \* the local variable data of the running store call
  cur,         \* the local variable current_status of atomic_update_progress
  processed,   \* main's counter processed
  failed,      \* main's counter failed
  result,      \* what process_library returned ("True", "False") or "raise"
  handler,     \* where main is in its try statement: "try", "except" or "none"
  granted,     \* history: loop positions whose claim_library returned True
  refusedAt,   \* history: loop positions whose claim_library returned False
  invoked,     \* history: loop positions for which process_library was called
  callChanged, \* history: the running store call changed the stored records
  doneAtCall,  \* history: the slug's record had been done when the running
               \* claim was issued
  outcomes,    \* history: the status of each mark_done / mark_failed write
  replaced,    \* history: the record the running terminal write found
  allDoneAtStart, \* history: every slug of to_process was done at the start
  runningAtFailure, \* history: slugs marked failed while the run was going on
  hist,        \* history: whether the file ever held a record / a done
               \* record of a slug
  catalog,     \* the libraries global of the run whose selection is studied
  prodConfig,  \* its product_config global
  ran,         \* the values of --tier it has been run with
  selections,  \* selections[t]: the slugs of to_process after --tier t
  inputs,      \* what the calls made by one process_library call will do
  at,          \* the position of that call in process_library and main
  readme,      \* its local variable readme, "none" before generate_readme
  ret,         \* what the call returned ("True", "False") or "raise"
  mark         \* the status main records for the item

vars == << file, lockEX, lockSH, alive, pc, to_process, idx, op, data, cur,
           processed, failed, result, handler, granted, refusedAt, invoked,
           callChanged, doneAtCall, outcomes, replaced, allDoneAtStart,
           runningAtFailure, hist, catalog, prodConfig, ran, selections,
           inputs, at, readme, ret, mark >>

\* The variables of the work enumeration.
tierVars == << catalog, prodConfig, ran, selections >>

\* The variables of one process_library call.
itemVars == << inputs, at, readme, ret, mark >>

\* choices=[1, 2, 3] of the --tier argument
Tiers == {1, 2, 3}

-----------------------------------------------------------------------------
(* Progress records and the content of the file *)

NoRec == [status |-> "absent", instance |-> 0]

Rec(status, p) == [status |-> status, instance |-> p]

EmptyTable == [s \in Slugs |-> NoRec]

\* The file: missing, zero bytes long, unparsable bytes, or a JSON table.
NoFile == [kind |-> "nofile", tab |-> EmptyTable]
EmptyFile == [kind |-> "empty", tab |-> EmptyTable]
Garbage == [kind |-> "garbage", tab |-> EmptyTable]
Tab(t) == [kind |-> "table", tab |-> t]

Parsable(f) == f.kind = "table"

\* The records a file holds (none when it is missing or unparsable).
Records(f) == IF Parsable(f) THEN f.tab ELSE EmptyTable

NRec(t) == Cardinality({s \in Slugs : t[s] # NoRec})

\* PROGRESS_FILE.write_text("{}"), second half: the two bytes "{}" written at
\* offset 0 of the file that the open(..., 'w') truncated.
WriteEmptyObject(f) ==
  IF f.kind = "empty" \/ f = Tab(EmptyTable) THEN Tab(EmptyTable) ELSE Garbage

\* Closing the r+ file flushes the buffered json.dump output at offset 0.  On
\* a file still empty that is the table; on bytes another process has written
\* since the truncate it is the table when the table is at least as long, and
\* the table followed by the tail of the other bytes (unparsable) otherwise.
Flush(f, t) ==
  CASE f.kind = "empty" -> {Tab(t)}
    [] f.kind = "garbage" -> {Tab(t), Garbage}
    [] f.kind = "table" /\ f.tab = t -> {Tab(t)}
    [] f.kind = "table" /\ f.tab # t /\ NRec(f.tab) < NRec(t) -> {Tab(t)}
    [] f.kind = "table" /\ f.tab # t /\ NRec(f.tab) = NRec(t) -> {Tab(t), Garbage}
    [] OTHER -> {Garbage}

-----------------------------------------------------------------------------
(* Work enumeration *)

\* get_library_tier for a lookup that reads the catalog's Tier field before
\* the product configuration.
get_library_tier_field_first(lib, config) ==
  IF 1 \in lib.tier THEN 1
  ELSE IF 2 \in lib.tier THEN 2
  ELSE IF 3 \in lib.tier THEN 3
  ELSE IF lib.slug \in config.tier1 THEN 1
  ELSE IF lib.slug \in config.tier2 THEN 2
  ELSE IF lib.slug \in config.tier3 THEN 3
  ELSE 3

RECURSIVE FilterSlugsReversed(_, _)
\* FilterSlugs for a comprehension that collects the kept items back to
\* front.
FilterSlugsReversed(libs, keep) ==
  IF libs = << >> THEN << >>
  ELSE FilterSlugsReversed(Tail(libs), keep)
       \o (IF Head(libs) \in keep THEN << Head(libs).slug >> ELSE << >>)

get_library_tier(lib, config) ==
  IF lib.slug \in config.tier1 THEN 1
  ELSE IF lib.slug \in config.tier2 THEN 2
  ELSE IF lib.slug \in config.tier3 THEN 3
  ELSE IF 1 \in lib.tier THEN 1
  ELSE IF 2 \in lib.tier THEN 2
  ELSE IF 3 \in lib.tier THEN 3
  ELSE 3

RECURSIVE FilterSlugs(_, _)
\* [l['slug'] for l in libs if keep(l)], keep given as the set of kept items
FilterSlugs(libs, keep) ==
  IF libs = << >> THEN << >>
  ELSE (IF Head(libs) \in keep THEN << Head(libs).slug >> ELSE << >>)
       \o FilterSlugs(Tail(libs), keep)

LibSet == {libraries[k] : k \in 1..Len(libraries)}

Args == [mode : {"library"}, slug : Slugs, t : {0}]
        \cup [mode : {"tier"}, slug : {""}, t : {1, 2, 3}]
        \cup [mode : {"all"}, slug : {""}, t : {0}]

\* main's choice of to_process from the command line.
Select(args) ==
  CASE args.mode = "library" ->
         FilterSlugs(libraries, {l \in LibSet : l.slug = args.slug})
    [] args.mode = "tier" ->
         FilterSlugs(libraries,
                     {l \in LibSet : get_library_tier(l, product_config) = args.t})
    [] OTHER -> FilterSlugs(libraries, LibSet)

-----------------------------------------------------------------------------
(* Helpers of the actions *)

\* main's local slug
Slug(p) == to_process[p][idx[p]]

\* The history of a slug's record after the file became f: "none" while the
\* file never held a record of it, "done" once it held one with status done.
Seen(h, f) == [s \in Slugs |->
                 IF Records(f)[s].status = "done" THEN "done"
                 ELSE IF Records(f)[s] # NoRec /\ h[s] = "none" THEN "recorded"
                 ELSE h[s]]

\* p's step takes the file from its current content to f.
SetFile(p, f) ==
  /\ file' = f
  /\ hist' = Seen(hist, f)
  /\ callChanged' = [callChanged EXCEPT ![p] = @ \/ Records(f) # Records(file)]

UpdatePcs == {"init_check", "init_trunc", "init_write", "lock", "upd_load",
              "upd_decide", "upd_unlock", "upd_close"}

InitWorkers ==
  /\ file = NoFile
  /\ lockEX = 0
  /\ lockSH = {}
  /\ alive = [p \in Procs |-> TRUE]
  /\ pc = [p \in Procs |-> "start"]
  /\ to_process = [p \in Procs |-> << >>]
  /\ idx = [p \in Procs |-> 1]
  /\ op = [p \in Procs |-> "none"]
  /\ data = [p \in Procs |-> EmptyTable]
  /\ cur = [p \in Procs |-> "none"]
  /\ processed = [p \in Procs |-> 0]
  /\ failed = [p \in Procs |-> 0]
  /\ result = [p \in Procs |-> "none"]
  /\ handler = [p \in Procs |-> "none"]
  /\ granted = [p \in Procs |-> << >>]
  /\ refusedAt = [p \in Procs |-> {}]
  /\ invoked = [p \in Procs |-> << >>]
  /\ callChanged = [p \in Procs |-> FALSE]
  /\ doneAtCall = [p \in Procs |-> FALSE]
  /\ outcomes = [p \in Procs |-> << >>]
  /\ replaced = [p \in Procs |-> NoRec]
  /\ allDoneAtStart = [p \in Procs |-> FALSE]
  /\ runningAtFailure = [p \in Procs |-> {}]
  /\ hist = [s \in Slugs |-> "none"]

\* The catalog and the configuration of the worker processes are the fixed
\* ones above; no selection is studied.
\* The work enumeration as the worker processes have it: the catalog and the
\* configuration above, no --tier run studied.
InitTiers ==
  /\ catalog = libraries
  /\ prodConfig = product_config
  /\ ran = {}
  /\ selections = [t \in Tiers |-> << >>]

\* No process_library call is followed step by step.
InitItem ==
  /\ inputs = [io |-> "none", serp |-> "skipped", gpt |-> << "text", "text", "text" >>,
               claude |-> << "text", "text", "text" >>, examples |-> "some",
               enhance |-> "off"]
  /\ at = "idle"
  /\ readme = "none"
  /\ ret = "none"
  /\ mark = "none"

Init ==
  /\ InitWorkers
  /\ InitTiers
  /\ InitItem


-----------------------------------------------------------------------------
(* main: selection of the work list and the head of the loop *)

Start(p) ==
  /\ alive[p] /\ pc[p] = "start"
  /\ \E args \in Args : to_process' = [to_process EXCEPT ![p] = Select(args)]
  /\ allDoneAtStart' = [allDoneAtStart EXCEPT ![p] =
        \A k \in 1..Len(to_process'[p]) :
            Records(file)[to_process'[p][k]].status = "done"]
  /\ pc' = [pc EXCEPT ![p] = "loop"]
  /\ UNCHANGED << file, lockEX, lockSH, alive, idx, op, data, cur, processed,
                  failed, granted, refusedAt, invoked, callChanged, doneAtCall,
                  hist >>
  /\ UNCHANGED << result, handler, outcomes, replaced, runningAtFailure >>
  /\ UNCHANGED << tierVars, itemVars >>

\* for i, lib in enumerate(to_process, 1): ... claim_library(slug)
LoopNext(p) ==
  /\ alive[p] /\ pc[p] = "loop"
  /\ IF idx[p] > Len(to_process[p])
     THEN /\ pc' = [pc EXCEPT ![p] = "finished"]
          /\ UNCHANGED << op, callChanged, doneAtCall >>
     ELSE /\ pc' = [pc EXCEPT ![p] = "init_check"]
          /\ op' = [op EXCEPT ![p] = "in_progress"]
          /\ callChanged' = [callChanged EXCEPT ![p] = FALSE]
          /\ doneAtCall' = [doneAtCall EXCEPT ![p] = hist[Slug(p)] = "done"]
  /\ UNCHANGED << file, lockEX, lockSH, alive, to_process, idx, data, cur,
                  processed, failed, granted, refusedAt, invoked, hist >>
  /\ UNCHANGED << result, handler, outcomes, replaced, allDoneAtStart,
                  runningAtFailure >>
  /\ UNCHANGED << tierVars, itemVars >>

-----------------------------------------------------------------------------
(* init_progress, called first by both store operations, outside the lock *)

\* if not PROGRESS_FILE.exists():
InitCheck(p) ==
  /\ alive[p] /\ pc[p] = "init_check"
  /\ pc' = [pc EXCEPT ![p] = IF file.kind = "nofile" THEN "init_trunc" ELSE "lock"]
  /\ UNCHANGED << file, lockEX, lockSH, alive, to_process, idx, op, data, cur,
                  processed, failed, granted, refusedAt, invoked, callChanged,
                  doneAtCall, hist >>
  /\ UNCHANGED << result, handler, outcomes, replaced, allDoneAtStart,
                  runningAtFailure >>
  /\ UNCHANGED << tierVars, itemVars >>

\* write_text opens the path with mode 'w': the file is created or truncated.
InitTrunc(p) ==
  /\ alive[p] /\ pc[p] = "init_trunc"
  /\ SetFile(p, EmptyFile)
  /\ pc' = [pc EXCEPT ![p] = "init_write"]
  /\ UNCHANGED << lockEX, lockSH, alive, to_process, idx, op, data, cur,
                  processed, failed, granted, refusedAt, invoked, doneAtCall >>
  /\ UNCHANGED << result, handler, outcomes, replaced, allDoneAtStart,
                  runningAtFailure >>
  /\ UNCHANGED << tierVars, itemVars >>

\* write_text writes "{}" and closes.
InitWrite(p) ==
  /\ alive[p] /\ pc[p] = "init_write"
  /\ SetFile(p, WriteEmptyObject(file))
  /\ pc' = [pc EXCEPT ![p] = "lock"]
  /\ UNCHANGED << lockEX, lockSH, alive, to_process, idx, op, data, cur,
                  processed, failed, granted, refusedAt, invoked, doneAtCall >>
  /\ UNCHANGED << result, handler, outcomes, replaced, allDoneAtStart,
                  runningAtFailure >>
  /\ UNCHANGED << tierVars, itemVars >>

\* open(PROGRESS_FILE) and fcntl.flock: LOCK_SH in atomic_read_progress,
\* LOCK_EX in atomic_update_progress; flock blocks until the lock is free.
Lock(p) ==
  /\ alive[p] /\ pc[p] = "lock"
  /\ lockEX = 0
  /\ IF op[p] = "read"
     THEN /\ lockSH' = lockSH \cup {p}
          /\ pc' = [pc EXCEPT ![p] = "rd_load"]
          /\ UNCHANGED lockEX
     ELSE /\ lockSH = {}
          /\ lockEX' = p
          /\ pc' = [pc EXCEPT ![p] = "upd_load"]
          /\ UNCHANGED lockSH
  /\ UNCHANGED << file, alive, to_process, idx, op, data, cur, processed,
                  failed, granted, refusedAt, invoked, callChanged, doneAtCall,
                  hist >>
  /\ UNCHANGED << result, handler, outcomes, replaced, allDoneAtStart,
                  runningAtFailure >>
  /\ UNCHANGED << tierVars, itemVars >>

-----------------------------------------------------------------------------
(* atomic_update_progress(slug, status) *)

\* try: f.seek(0); data = json.load(f)  except: data = {}
UpdLoad(p) ==
  /\ alive[p] /\ pc[p] = "upd_load"
  /\ data' = [data EXCEPT ![p] = IF Parsable(file) THEN file.tab ELSE EmptyTable]
  /\ pc' = [pc EXCEPT ![p] = "upd_decide"]
  /\ UNCHANGED << file, lockEX, lockSH, alive, to_process, idx, op, cur,
                  processed, failed, granted, refusedAt, invoked, callChanged,
                  doneAtCall, hist >>
  /\ UNCHANGED << result, handler, outcomes, replaced, allDoneAtStart,
                  runningAtFailure >>
  /\ UNCHANGED << tierVars, itemVars >>

\* Refuses for an update that applies the claim check to every status.
RefusesEveryStatus(status, current_status) ==
  current_status \in {"in_progress", "done"}

\* if current_status in ["in_progress", "done"] (claims only)
Refuses(status, current_status) ==
  status = "in_progress" /\ current_status \in {"in_progress", "done"}

\* The claim check, then either unlock and return False, or data[slug] = {...},
\* f.seek(0), f.truncate() and json.dump into the file object's buffer.
UpdDecide(p) ==
  /\ alive[p] /\ pc[p] = "upd_decide"
  /\ LET current_status == data[p][Slug(p)].status IN
     IF Refuses(op[p], current_status)
     THEN /\ lockEX' = 0
          /\ pc' = [pc EXCEPT ![p] = "refused"]
          /\ cur' = [cur EXCEPT ![p] = current_status]
          /\ refusedAt' = [refusedAt EXCEPT ![p] = @ \cup {idx[p]}]
          /\ UNCHANGED << file, data, callChanged, replaced, hist >>
     ELSE /\ data' = [data EXCEPT ![p][Slug(p)] = Rec(op[p], p)]
          /\ replaced' = [replaced EXCEPT ![p] =
                            IF op[p] = "in_progress" THEN @
                            ELSE data[p][Slug(p)]]
          /\ SetFile(p, EmptyFile)
          /\ pc' = [pc EXCEPT ![p] = "upd_unlock"]
          /\ cur' = [cur EXCEPT ![p] =
                       IF op[p] = "in_progress" THEN current_status ELSE @]
          /\ UNCHANGED << lockEX, refusedAt >>
  /\ UNCHANGED << lockSH, alive, to_process, idx, op, processed, failed,
                  granted, invoked, doneAtCall >>
  /\ UNCHANGED << result, handler, outcomes, allDoneAtStart,
                  runningAtFailure >>
  /\ UNCHANGED << tierVars, itemVars >>

\* UpdUnlock for an update that leaves the with-block's body without
\* releasing the lock.
UpdUnlockKeepsLock(p) ==
  /\ alive[p] /\ pc[p] = "upd_unlock"
  /\ pc' = [pc EXCEPT ![p] = "upd_close"]
  /\ UNCHANGED << file, lockEX, lockSH, alive, to_process, idx, op, data, cur,
                  processed, failed, granted, refusedAt, invoked, callChanged,
                  doneAtCall, hist >>
  /\ UNCHANGED << result, handler, outcomes, replaced, allDoneAtStart,
                  runningAtFailure >>
  /\ UNCHANGED << tierVars, itemVars >>

\* fcntl.flock(f.fileno(), fcntl.LOCK_UN), with the dump still in the buffer
UpdUnlock(p) ==
  /\ alive[p] /\ pc[p] = "upd_unlock"
  /\ lockEX' = 0
  /\ pc' = [pc EXCEPT ![p] = "upd_close"]
  /\ UNCHANGED << file, lockSH, alive, to_process, idx, op, data, cur,
                  processed, failed, granted, refusedAt, invoked, callChanged,
                  doneAtCall, hist >>
  /\ UNCHANGED << result, handler, outcomes, replaced, allDoneAtStart,
                  runningAtFailure >>
  /\ UNCHANGED << tierVars, itemVars >>

\* The run of q is going on: main has built its work list and has not ended.
Running(q) == alive[q] /\ pc[q] \notin {"start", "finished", "crashed"}

\* The slugs the loop of q has not yet gone past.
Ahead(q) == { to_process[q][k] : k \in idx[q]..Len(to_process[q]) }

\* return True leaves the with-block: the file is closed and the buffer flushed.
UpdClose(p) ==
  /\ alive[p] /\ pc[p] = "upd_close"
  /\ \E f \in Flush(file, data[p]) : SetFile(p, f)
  /\ IF op[p] = "in_progress"
     THEN /\ pc' = [pc EXCEPT ![p] = "claimed"]
          /\ granted' = [granted EXCEPT ![p] = Append(@, idx[p])]
     ELSE /\ pc' = [pc EXCEPT ![p] = "marked"]
          /\ UNCHANGED granted
  /\ outcomes' = [outcomes EXCEPT ![p] =
        IF op[p] = "in_progress" THEN @ ELSE Append(@, op[p])]
  /\ runningAtFailure' =
        [q \in Procs |->
           IF op[p] = "failed" /\ Running(q) /\ Slug(p) \in Ahead(q)
           THEN runningAtFailure[q] \cup {Slug(p)}
           ELSE runningAtFailure[q]]
  /\ UNCHANGED << lockEX, lockSH, alive, to_process, idx, op, data, cur,
                  processed, failed, refusedAt, invoked, doneAtCall >>
  /\ UNCHANGED << result, handler, replaced, allDoneAtStart >>
  /\ UNCHANGED << tierVars, itemVars >>

-----------------------------------------------------------------------------
(* main: a refused claim *)

\* if not claim_library(slug): progress = atomic_read_progress()
ReadAfterRefusal(p) ==
  /\ alive[p] /\ pc[p] = "refused"
  /\ op' = [op EXCEPT ![p] = "read"]
  /\ callChanged' = [callChanged EXCEPT ![p] = FALSE]
  /\ pc' = [pc EXCEPT ![p] = "init_check"]
  /\ UNCHANGED << file, lockEX, lockSH, alive, to_process, idx, data, cur,
                  processed, failed, granted, refusedAt, invoked, doneAtCall,
                  hist >>
  /\ UNCHANGED << result, handler, outcomes, replaced, allDoneAtStart,
                  runningAtFailure >>
  /\ UNCHANGED << tierVars, itemVars >>

\* RdUnlock without the flock(LOCK_UN): the reader returns with its shared
\* lock still held.
RdUnlockKeepsLock(p) ==
  /\ alive[p] /\ pc[p] = "rd_unlock"
  /\ pc' = [pc EXCEPT ![p] = "skipped"]
  /\ UNCHANGED << file, lockEX, lockSH, alive, to_process, idx, op, data, cur,
                  processed, failed, granted, refusedAt, invoked, callChanged,
                  doneAtCall, hist >>
  /\ UNCHANGED << result, handler, outcomes, replaced, allDoneAtStart,
                  runningAtFailure >>
  /\ UNCHANGED << tierVars, itemVars >>

\* data = json.load(f) under LOCK_SH; a JSONDecodeError leaves the with-block
\* (closing the file drops the lock) and is caught nowhere in main.
RdLoad(p) ==
  /\ alive[p] /\ pc[p] = "rd_load"
  /\ IF Parsable(file)
     THEN /\ data' = [data EXCEPT ![p] = file.tab]
          /\ pc' = [pc EXCEPT ![p] = "rd_unlock"]
          /\ UNCHANGED lockSH
     ELSE /\ lockSH' = lockSH \ {p}
          /\ pc' = [pc EXCEPT ![p] = "crashed"]
          /\ UNCHANGED data
  /\ UNCHANGED << file, lockEX, alive, to_process, idx, op, cur, processed,
                  failed, granted, refusedAt, invoked, callChanged, doneAtCall,
                  hist >>
  /\ UNCHANGED << result, handler, outcomes, replaced, allDoneAtStart,
                  runningAtFailure >>
  /\ UNCHANGED << tierVars, itemVars >>

\* fcntl.flock(f.fileno(), fcntl.LOCK_UN); return data
RdUnlock(p) ==
  /\ alive[p] /\ pc[p] = "rd_unlock"
  /\ lockSH' = lockSH \ {p}
  /\ pc' = [pc EXCEPT ![p] = "skipped"]
  /\ UNCHANGED << file, lockEX, alive, to_process, idx, op, data, cur,
                  processed, failed, granted, refusedAt, invoked, callChanged,
                  doneAtCall, hist >>
  /\ UNCHANGED << result, handler, outcomes, replaced, allDoneAtStart,
                  runningAtFailure >>
  /\ UNCHANGED << tierVars, itemVars >>

\* Continue without the continue statement: main falls through to the
\* processing of the item whose claim was refused.
ContinueFallsThrough(p) ==
  /\ alive[p] /\ pc[p] = "skipped"
  /\ data' = [data EXCEPT ![p] = EmptyTable]
  /\ cur' = [cur EXCEPT ![p] = "none"]
  /\ pc' = [pc EXCEPT ![p] = "claimed"]
  /\ UNCHANGED << file, lockEX, lockSH, alive, to_process, idx, op, processed,
                  failed, granted, refusedAt, invoked, callChanged, doneAtCall,
                  hist >>
  /\ UNCHANGED << result, handler, outcomes, replaced, allDoneAtStart,
                  runningAtFailure >>
  /\ UNCHANGED << tierVars, itemVars >>

\* Continue for a loop that counts a skipped item as failed.
ContinueCountsFailed(p) ==
  /\ alive[p] /\ pc[p] = "skipped"
  /\ idx' = [idx EXCEPT ![p] = @ + 1]
  /\ failed' = [failed EXCEPT ![p] = @ + 1]
  /\ data' = [data EXCEPT ![p] = EmptyTable]
  /\ cur' = [cur EXCEPT ![p] = "none"]
  /\ pc' = [pc EXCEPT ![p] = "loop"]
  /\ UNCHANGED << file, lockEX, lockSH, alive, to_process, op, processed,
                  granted, refusedAt, invoked, callChanged, doneAtCall,
                  hist >>
  /\ UNCHANGED << result, handler, outcomes, replaced, allDoneAtStart,
                  runningAtFailure >>
  /\ UNCHANGED << tierVars, itemVars >>

\* print(... SKIP (status)); continue
Continue(p) ==
  /\ alive[p] /\ pc[p] = "skipped"
  /\ idx' = [idx EXCEPT ![p] = @ + 1]
  /\ data' = [data EXCEPT ![p] = EmptyTable]
  /\ cur' = [cur EXCEPT ![p] = "none"]
  /\ pc' = [pc EXCEPT ![p] = "loop"]
  /\ UNCHANGED << file, lockEX, lockSH, alive, to_process, op, processed,
                  failed, granted, refusedAt, invoked, callChanged, doneAtCall,
                  hist >>
  /\ UNCHANGED << result, handler, outcomes, replaced, allDoneAtStart,
                  runningAtFailure >>
  /\ UNCHANGED << tierVars, itemVars >>

-----------------------------------------------------------------------------
(* main: a granted claim *)

\* try: if process_library(lib, ...):
Process(p) ==
  /\ alive[p] /\ pc[p] = "claimed"
  /\ invoked' = [invoked EXCEPT ![p] = Append(@, idx[p])]
  /\ pc' = [pc EXCEPT ![p] = "processing"]
  /\ UNCHANGED << file, lockEX, lockSH, alive, to_process, idx, op, data, cur,
                  processed, failed, granted, refusedAt, callChanged, doneAtCall,
                  hist >>
  /\ UNCHANGED << result, handler, outcomes, replaced, allDoneAtStart,
                  runningAtFailure >>
  /\ UNCHANGED << tierVars, itemVars >>

ProcessResults == {"True", "False", "raise"}

\* Outcome for a main that ignores what process_library returned.
OutcomeAlwaysDone(r) == "done"

\* The status main records for a result of process_library.
Outcome(r) == IF r = "True" THEN "done" ELSE "failed"

\* ProcessReturn for a loop that moves on to the next item without writing
\* a terminal status.
ProcessReturnSkipsMark(p) ==
  /\ alive[p] /\ pc[p] = "processing"
  /\ idx' = [idx EXCEPT ![p] = @ + 1]
  /\ pc' = [pc EXCEPT ![p] = "loop"]
  /\ UNCHANGED << file, lockEX, lockSH, alive, to_process, op, data, cur,
                  processed, failed, result, handler, granted, refusedAt,
                  invoked, callChanged, doneAtCall, outcomes, replaced,
                  allDoneAtStart, runningAtFailure, hist >>
  /\ UNCHANGED << tierVars, itemVars >>

\* process_library returns or raises: mark_done(slug) or mark_failed(slug)
ProcessReturn(p) ==
  /\ alive[p] /\ pc[p] = "processing"
  /\ \E r \in ProcessResults :
        /\ result' = [result EXCEPT ![p] = r]
        /\ op' = [op EXCEPT ![p] = Outcome(r)]
        /\ handler' = [handler EXCEPT ![p] =
                          IF r = "raise" THEN "except" ELSE "try"]
  /\ callChanged' = [callChanged EXCEPT ![p] = FALSE]
  /\ pc' = [pc EXCEPT ![p] = "init_check"]
  /\ UNCHANGED << file, lockEX, lockSH, alive, to_process, idx, data, cur,
                  processed, failed, granted, refusedAt, invoked, doneAtCall,
                  hist >>
  /\ UNCHANGED << outcomes, replaced, allDoneAtStart, runningAtFailure >>
  /\ UNCHANGED << tierVars, itemVars >>

\* Count for a loop that stays on an item it has marked failed and claims it
\* again.
CountRetriesFailed(p) ==
  /\ alive[p] /\ pc[p] = "marked"
  /\ IF op[p] = "done"
     THEN processed' = [processed EXCEPT ![p] = @ + 1] /\ UNCHANGED failed
     ELSE failed' = [failed EXCEPT ![p] = @ + 1] /\ UNCHANGED processed
  /\ idx' = [idx EXCEPT ![p] = IF op[p] = "done" THEN @ + 1 ELSE @]
  /\ data' = [data EXCEPT ![p] = EmptyTable]
  /\ cur' = [cur EXCEPT ![p] = "none"]
  /\ result' = [result EXCEPT ![p] = "none"]
  /\ handler' = [handler EXCEPT ![p] = "none"]
  /\ replaced' = [replaced EXCEPT ![p] = NoRec]
  /\ pc' = [pc EXCEPT ![p] = "loop"]
  /\ UNCHANGED << file, lockEX, lockSH, alive, to_process, op, granted,
                  refusedAt, invoked, callChanged, doneAtCall,
                  hist >>
  /\ UNCHANGED << outcomes, allDoneAtStart, runningAtFailure >>
  /\ UNCHANGED << tierVars, itemVars >>

\* Count for a loop that starts the work list over after a failure.
CountRestartsAfterFailure(p) ==
  /\ alive[p] /\ pc[p] = "marked"
  /\ IF op[p] = "done"
     THEN processed' = [processed EXCEPT ![p] = @ + 1] /\ UNCHANGED failed
     ELSE failed' = [failed EXCEPT ![p] = @ + 1] /\ UNCHANGED processed
  /\ idx' = [idx EXCEPT ![p] = IF op[p] = "done" THEN @ + 1 ELSE 1]
  /\ data' = [data EXCEPT ![p] = EmptyTable]
  /\ cur' = [cur EXCEPT ![p] = "none"]
  /\ result' = [result EXCEPT ![p] = "none"]
  /\ handler' = [handler EXCEPT ![p] = "none"]
  /\ replaced' = [replaced EXCEPT ![p] = NoRec]
  /\ pc' = [pc EXCEPT ![p] = "loop"]
  /\ UNCHANGED << file, lockEX, lockSH, alive, to_process, op, granted,
                  refusedAt, invoked, callChanged, doneAtCall,
                  hist >>
  /\ UNCHANGED << outcomes, allDoneAtStart, runningAtFailure >>
  /\ UNCHANGED << tierVars, itemVars >>

\* Count for a loop that gives up the rest of the work list after a failure.
CountStopsAfterFailure(p) ==
  /\ alive[p] /\ pc[p] = "marked"
  /\ IF op[p] = "done"
     THEN processed' = [processed EXCEPT ![p] = @ + 1] /\ UNCHANGED failed
     ELSE failed' = [failed EXCEPT ![p] = @ + 1] /\ UNCHANGED processed
  /\ idx' = [idx EXCEPT ![p] = @ + 1]
  /\ data' = [data EXCEPT ![p] = EmptyTable]
  /\ cur' = [cur EXCEPT ![p] = "none"]
  /\ result' = [result EXCEPT ![p] = "none"]
  /\ handler' = [handler EXCEPT ![p] = "none"]
  /\ replaced' = [replaced EXCEPT ![p] = NoRec]
  /\ pc' = [pc EXCEPT ![p] = IF op[p] = "done" THEN "loop" ELSE "finished"]
  /\ UNCHANGED << file, lockEX, lockSH, alive, to_process, op, granted,
                  refusedAt, invoked, callChanged, doneAtCall,
                  hist >>
  /\ UNCHANGED << outcomes, allDoneAtStart, runningAtFailure >>
  /\ UNCHANGED << tierVars, itemVars >>

\* processed += 1 or failed += 1, and the next iteration
Count(p) ==
  /\ alive[p] /\ pc[p] = "marked"
  /\ IF op[p] = "done"
     THEN processed' = [processed EXCEPT ![p] = @ + 1] /\ UNCHANGED failed
     ELSE failed' = [failed EXCEPT ![p] = @ + 1] /\ UNCHANGED processed
  /\ idx' = [idx EXCEPT ![p] = @ + 1]
  /\ data' = [data EXCEPT ![p] = EmptyTable]
  /\ cur' = [cur EXCEPT ![p] = "none"]
  /\ result' = [result EXCEPT ![p] = "none"]
  /\ handler' = [handler EXCEPT ![p] = "none"]
  /\ replaced' = [replaced EXCEPT ![p] = NoRec]
  /\ pc' = [pc EXCEPT ![p] = "loop"]
  /\ UNCHANGED << file, lockEX, lockSH, alive, to_process, op, granted,
                  refusedAt, invoked, callChanged, doneAtCall,
                  hist >>
  /\ UNCHANGED << outcomes, allDoneAtStart, runningAtFailure >>
  /\ UNCHANGED << tierVars, itemVars >>

-----------------------------------------------------------------------------
(* The environment: open(PROGRESS_FILE, ...) raises OSError in a store      *)
(* operation.  The claim and the read after a refusal are outside the try   *)
(* statement of main, so the exception ends the run.  mark_done and the     *)
(* mark_failed of the else branch are inside it: except Exception catches   *)
(* the error and calls mark_failed(slug).  An error in that last call is    *)
(* raised in the handler and ends the run.                                  *)

StoreFails(p) ==
  /\ alive[p] /\ pc[p] = "lock"
  /\ IF handler[p] = "try"
     THEN /\ op' = [op EXCEPT ![p] = "failed"]
          /\ handler' = [handler EXCEPT ![p] = "except"]
          /\ callChanged' = [callChanged EXCEPT ![p] = FALSE]
          /\ pc' = [pc EXCEPT ![p] = "init_check"]
          /\ UNCHANGED << data, cur, result, replaced >>
     ELSE /\ pc' = [pc EXCEPT ![p] = "crashed"]
          /\ op' = [op EXCEPT ![p] = "none"]
          /\ handler' = [handler EXCEPT ![p] = "none"]
          /\ result' = [result EXCEPT ![p] = "none"]
          /\ data' = [data EXCEPT ![p] = EmptyTable]
          /\ cur' = [cur EXCEPT ![p] = "none"]
          /\ replaced' = [replaced EXCEPT ![p] = NoRec]
          /\ UNCHANGED callChanged
  /\ UNCHANGED << file, lockEX, lockSH, alive, to_process, idx, processed,
                  failed, granted, refusedAt, invoked, doneAtCall, outcomes,
                  allDoneAtStart, runningAtFailure, hist >>
  /\ UNCHANGED << tierVars, itemVars >>

-----------------------------------------------------------------------------
(* The environment: a process is killed (SIGKILL).  The kernel closes its   *)
(* descriptors, which drops its flock; what is still in the buffer of its   *)
(* file object is never written, and its local variables are gone.          *)

Kill(p) ==
  /\ alive[p] /\ pc[p] \notin {"finished", "crashed"}
  /\ alive' = [alive EXCEPT ![p] = FALSE]
  /\ lockEX' = IF lockEX = p THEN 0 ELSE lockEX
  /\ lockSH' = lockSH \ {p}
  /\ data' = [data EXCEPT ![p] = EmptyTable]
  /\ cur' = [cur EXCEPT ![p] = "none"]
  /\ result' = [result EXCEPT ![p] = "none"]
  /\ handler' = [handler EXCEPT ![p] = "none"]
  /\ replaced' = [replaced EXCEPT ![p] = NoRec]
  /\ UNCHANGED << file, pc, to_process, idx, op, processed, failed, granted,
                  refusedAt, invoked, callChanged, doneAtCall, outcomes,
                  allDoneAtStart, runningAtFailure, hist >>
  /\ UNCHANGED << tierVars, itemVars >>

Next ==
  \E p \in Procs :
    \/ Start(p)
    \/ LoopNext(p)
    \/ InitCheck(p)
    \/ InitTrunc(p)
    \/ InitWrite(p)
    \/ Lock(p)
    \/ UpdLoad(p)
    \/ UpdDecide(p)
    \/ UpdUnlock(p)
    \/ UpdClose(p)
    \/ ReadAfterRefusal(p)
    \/ RdLoad(p)
    \/ RdUnlock(p)
    \/ Continue(p)
    \/ Process(p)
    \/ ProcessReturn(p)
    \/ Count(p)
    \/ StoreFails(p)
    \/ Kill(p)

-----------------------------------------------------------------------------
(* The work enumeration on its own: main run with --tier t, for catalogs    *)
(* and product configurations drawn at the start.  The worker processes     *)
(* are left where they begin.                                               *)

\* The most libraries a drawn catalog holds.
MaxCatalog == 4

\* slugify(name) of the libraries of MASTER-LIBRARY-LIST.md, in file order
SlugNames == << "a", "b", "c", "d", "e" >>

\* What the lowercased Tier field of a library can name: nothing, one tier,
\* or several ('tier 2' and 'tier 3' both occur in it).
TierFields == { {}, {1}, {2}, {3}, {2, 3} }

\* The lists tier1, tier2, tier3 of product-config.json a slug can be in.
Memberships == { {}, {2}, {1, 3} }

\* The libraries load_libraries returns for n entries with Tier fields f.
MakeCatalog(n, f) == [k \in 1..n |-> [slug |-> SlugNames[k], tier |-> f[k]]]

\* product_config['tiers'] when entry k is in the lists m[k].
MakeConfig(n, m) ==
  [tier1 |-> { SlugNames[k] : k \in { j \in 1..n : 1 \in m[j] } },
   tier2 |-> { SlugNames[k] : k \in { j \in 1..n : 2 \in m[j] } },
   tier3 |-> { SlugNames[k] : k \in { j \in 1..n : 3 \in m[j] } }]

\* to_process = [l for l in libraries if get_library_tier(l) == args.tier]
TierFilter(libs, config, t) ==
  FilterSlugs(libs, { libs[k] : k \in { j \in 1..Len(libs) :
                                          get_library_tier(libs[j], config) = t } })

TierInit ==
  /\ InitWorkers
  /\ \E n \in 0..MaxCatalog :
       \E f \in [1..n -> TierFields], m \in [1..n -> Memberships] :
         /\ catalog = MakeCatalog(n, f)
         /\ prodConfig = MakeConfig(n, m)
  /\ ran = {}
  /\ selections = [t \in Tiers |-> << >>]
  /\ InitItem

\* main with --tier t: the elif args.tier branch
TierSelect(t) ==
  /\ t \notin ran
  /\ ran' = ran \cup {t}
  /\ selections' = [selections EXCEPT ![t] = TierFilter(catalog, prodConfig, t)]
  /\ UNCHANGED << catalog, prodConfig >>
  /\ UNCHANGED << file, lockEX, lockSH, alive, pc, to_process, idx, op, data,
                  cur, processed, failed, result, handler, granted, refusedAt,
                  invoked, callChanged, doneAtCall, outcomes, replaced,
                  allDoneAtStart, runningAtFailure, hist >>
  /\ UNCHANGED itemVars

TierNext == \E t \in Tiers : TierSelect(t)

TierSpec == TierInit /\ [][TierNext]_vars

-----------------------------------------------------------------------------
(* One call of process_library and the status main records for it, for     *)
(* every combination of what the calls inside it do.  The store is left    *)
(* out: mark_done and mark_failed are taken to succeed.                     *)

\* for attempt in range(3)
AttemptCount == 3

\* One API attempt: it returns text, returns empty content, or raises.
Contents == {"text", "empty", "raise"}

\* What the three attempts of call_gpt would do.
GptAttempts == [1..AttemptCount -> Contents]

\* What the three attempts of call_claude would do.
ClaudeAttempts ==
  { << "text", "text", "text" >>, << "raise", "raise", "raise" >>,
    << "raise", "empty", "text" >> }

\* The place of an exception that no try statement of process_library covers:
\* lib_dir.mkdir or one of the write_text calls.
IoErrors == {"none", "mkdir", "write_readme", "write_example"}

\* The SERP blueprint: not asked for, found, or get_content_blueprint raises.
SerpOutcomes == {"skipped", "found", "raises"}

\* generate_code_examples: [] , a list of dicts, or a list whose elements are
\* not dicts (ex.get raises AttributeError).
ExamplesOutcomes == {"none", "some", "malformed"}

\* The enhancement: not asked for, success, partial, or enhance_library_folder
\* raises.
EnhanceOutcomes == {"off", "success", "partial", "raises"}

Inputs ==
  [io : IoErrors, serp : SerpOutcomes, gpt : GptAttempts,
   claude : ClaudeAttempts, examples : ExamplesOutcomes,
   enhance : EnhanceOutcomes]

\* The retry loop of call_claude and call_gpt from attempt k on: the first
\* attempt that does not raise returns its content; return "" after the loop.
RECURSIVE Retry(_, _)
Retry(attempts, k) ==
  IF k > AttemptCount THEN "empty"
  ELSE IF attempts[k] # "raise" THEN attempts[k]
  ELSE Retry(attempts, k + 1)

call_claude(attempts) == Retry(attempts, 1)

call_gpt(attempts) == Retry(attempts, 1)

\* generate_readme returns call_gpt(prompt)
generate_readme(inp) == call_gpt(inp.gpt)

\* generate_migration returns call_claude(prompt)
generate_migration(inp) == call_claude(inp.claude)

\* The call leaves process_library with value r (or the exception "raise").
Return(r) ==
  /\ ret' = r
  /\ at' = "returned"

ItemInit ==
  /\ InitWorkers
  /\ InitTiers
  /\ inputs \in Inputs
  /\ at = "mkdir"
  /\ readme = "none"
  /\ ret = "none"
  /\ mark = "none"

\* lib_dir.mkdir(exist_ok=True)
MkdirStep ==
  /\ at = "mkdir"
  /\ IF inputs.io = "mkdir" THEN Return("raise")
     ELSE at' = "serp" /\ UNCHANGED ret
  /\ UNCHANGED << inputs, readme, mark >>
  /\ UNCHANGED << file, lockEX, lockSH, alive, pc, to_process, idx, op, data,
                  cur, processed, failed, result, handler, granted, refusedAt,
                  invoked, callChanged, doneAtCall, outcomes, replaced,
                  allDoneAtStart, runningAtFailure, hist >>
  /\ UNCHANGED tierVars

\* The SERP blueprint: not asked for, found, or the exception is caught and
\* printed; process_library goes on in each case.
SerpStep ==
  /\ at = "serp"
  /\ inputs.serp \in SerpOutcomes
  /\ at' = "readme"
  /\ UNCHANGED << inputs, readme, ret, mark >>
  /\ UNCHANGED << file, lockEX, lockSH, alive, pc, to_process, idx, op, data,
                  cur, processed, failed, result, handler, granted, refusedAt,
                  invoked, callChanged, doneAtCall, outcomes, replaced,
                  allDoneAtStart, runningAtFailure, hist >>
  /\ UNCHANGED tierVars

\* readme = generate_readme(...); if not readme: return False; write_text
ReadmeStep ==
  /\ at = "readme"
  /\ readme' = generate_readme(inputs)
  /\ IF readme' = "empty" THEN Return("False")
     ELSE IF inputs.io = "write_readme" THEN Return("raise")
     ELSE at' = "migration" /\ UNCHANGED ret
  /\ UNCHANGED << inputs, mark >>
  /\ UNCHANGED << file, lockEX, lockSH, alive, pc, to_process, idx, op, data,
                  cur, processed, failed, result, handler, granted, refusedAt,
                  invoked, callChanged, doneAtCall, outcomes, replaced,
                  allDoneAtStart, runningAtFailure, hist >>
  /\ UNCHANGED tierVars

\* MigrationStep for a process_library that gives up on an empty migration
\* guide.
MigrationStepFailsOnEmpty ==
  /\ at = "migration"
  /\ IF generate_migration(inputs) = "empty" THEN Return("False")
     ELSE at' = "examples" /\ UNCHANGED ret
  /\ UNCHANGED << inputs, readme, mark >>
  /\ UNCHANGED << file, lockEX, lockSH, alive, pc, to_process, idx, op, data,
                  cur, processed, failed, result, handler, granted, refusedAt,
                  invoked, callChanged, doneAtCall, outcomes, replaced,
                  allDoneAtStart, runningAtFailure, hist >>
  /\ UNCHANGED tierVars

\* migration = generate_migration(lib); if migration: write_text
MigrationStep ==
  /\ at = "migration"
  /\ generate_migration(inputs) \in {"text", "empty"}
  /\ at' = "examples"
  /\ UNCHANGED << inputs, readme, ret, mark >>
  /\ UNCHANGED << file, lockEX, lockSH, alive, pc, to_process, idx, op, data,
                  cur, processed, failed, result, handler, granted, refusedAt,
                  invoked, callChanged, doneAtCall, outcomes, replaced,
                  allDoneAtStart, runningAtFailure, hist >>
  /\ UNCHANGED tierVars

\* examples = generate_code_examples(lib); for ex in examples: ex.get, write_text
ExamplesStep ==
  /\ at = "examples"
  /\ IF inputs.examples = "malformed" THEN Return("raise")
     ELSE IF inputs.examples = "some" /\ inputs.io = "write_example"
          THEN Return("raise")
     ELSE at' = "enhance" /\ UNCHANGED ret
  /\ UNCHANGED << inputs, readme, mark >>
  /\ UNCHANGED << file, lockEX, lockSH, alive, pc, to_process, idx, op, data,
                  cur, processed, failed, result, handler, granted, refusedAt,
                  invoked, callChanged, doneAtCall, outcomes, replaced,
                  allDoneAtStart, runningAtFailure, hist >>
  /\ UNCHANGED tierVars

\* The enhancement step, its exception caught and printed; return True
EnhanceStep ==
  /\ at = "enhance"
  /\ inputs.enhance \in EnhanceOutcomes
  /\ Return("True")
  /\ UNCHANGED << inputs, readme, mark >>
  /\ UNCHANGED << file, lockEX, lockSH, alive, pc, to_process, idx, op, data,
                  cur, processed, failed, result, handler, granted, refusedAt,
                  invoked, callChanged, doneAtCall, outcomes, replaced,
                  allDoneAtStart, runningAtFailure, hist >>
  /\ UNCHANGED tierVars

\* main: mark_done(slug) if process_library returned True, mark_failed(slug)
\* in the else branch and in the except clause.
MarkStep ==
  /\ at = "returned"
  /\ mark' = Outcome(ret)
  /\ at' = "marked"
  /\ UNCHANGED << inputs, readme, ret >>
  /\ UNCHANGED << file, lockEX, lockSH, alive, pc, to_process, idx, op, data,
                  cur, processed, failed, result, handler, granted, refusedAt,
                  invoked, callChanged, doneAtCall, outcomes, replaced,
                  allDoneAtStart, runningAtFailure, hist >>
  /\ UNCHANGED tierVars

ItemNext ==
  \/ MkdirStep
  \/ SerpStep
  \/ ReadmeStep
  \/ MigrationStep
  \/ ExamplesStep
  \/ EnhanceStep
  \/ MarkStep

ItemSpec == ItemInit /\ [][ItemNext]_vars

-----------------------------------------------------------------------------
(* The worker processes *)

Spec == Init /\ [][Next]_vars

\* One step of the program text of process p: everything but the failure of
\* open() and the kill, which the environment may or may not do.
Step(p) ==
  \/ Start(p) \/ LoopNext(p) \/ InitCheck(p) \/ InitTrunc(p) \/ InitWrite(p)
  \/ Lock(p) \/ UpdLoad(p) \/ UpdDecide(p) \/ UpdUnlock(p) \/ UpdClose(p)
  \/ ReadAfterRefusal(p) \/ RdLoad(p) \/ RdUnlock(p) \/ Continue(p)
  \/ Process(p) \/ ProcessReturn(p) \/ Count(p)

\* A process that is not killed keeps running its code, and a process blocked
\* in flock is granted the lock if the lock is free again and again.
Fairness == \A p \in Procs : WF_vars(Step(p)) /\ SF_vars(Lock(p))

\* Both runs are started with --library a, so that every store operation of
\* one process contends with the other's for the same record.
SameLibrary == \A q \in Procs : to_process'[q] \in { << >>, << "a" >> }

LockNext ==
  \E p \in Procs : (Step(p) \/ StoreFails(p) \/ Kill(p)) /\ SameLibrary

LockSpec == Init /\ [][LockNext]_vars /\ Fairness

-----------------------------------------------------------------------------
(* Properties *)

\* p runs between a claim of s that returned True and the end of its
\* mark_done / mark_failed call for s.
Holding(p, s) ==
  /\ alive[p]
  /\ \/ pc[p] \in {"claimed", "processing"}
     \/ pc[p] \in UpdatePcs /\ op[p] \in {"done", "failed"}
  /\ Slug(p) = s

\* No live process is between a truncate of the file and the write that
\* follows it.
Quiescent ==
  \A q \in Procs :
    alive[q] => pc[q] \notin {"init_write", "upd_unlock", "upd_close"}

Range(seq) == {seq[k] : k \in 1..Len(seq)}

\* C1: for every slug, at no instant are two processes both between a granted
\* claim on it and their terminal write for it.
MutualExclusion ==
  \A s \in Slugs : Cardinality({p \in Procs : Holding(p, s)}) <= 1

\* C2: claim_library returns False only when the record read under the lock
\* was in_progress or done; when it returns True the record read was neither,
\* and at the return the store holds the slug's record as in_progress with
\* the caller's identity.
ClaimDecisionRule ==
  [][\A p \in Procs :
       /\ (pc[p] = "upd_decide" /\ pc'[p] = "refused")
            => cur'[p] \in {"in_progress", "done"}
       /\ (pc[p] = "upd_close" /\ pc'[p] = "claimed")
            => /\ cur[p] \notin {"in_progress", "done"}
               /\ Records(file')[Slug(p)] = Rec("in_progress", p)]_vars

\* C3: a claim issued when the slug's record has once been done never
\* returns True.
DoneIsFinal ==
  \A p \in Procs : pc[p] = "claimed" => ~doneAtCall[p]

\* p was killed after its claim was granted and before its terminal write
\* touched the file.
KilledHolding(p) ==
  /\ ~alive[p]
  /\ \/ pc[p] \in {"claimed", "processing"}
     \/ /\ op[p] \in {"done", "failed"}
        /\ pc[p] \in {"init_check", "lock", "upd_load", "upd_decide"}

\* C4: the slug of a process killed while it held the claim keeps its
\* in_progress record, and no other process holds a claim on it.
CrashIsolation ==
  \A p \in Procs :
    KilledHolding(p) =>
      /\ Quiescent => Records(file)[Slug(p)].status = "in_progress"
      /\ \A q \in Procs \ {p} : ~Holding(q, Slug(p))

\* C5: a claim that reads a failed record under the lock is granted, and at
\* its return the store holds the record as in_progress with the caller's
\* identity.
FailedIsReclaimable ==
  [][\A p \in Procs :
       /\ (/\ pc[p] = "upd_decide" /\ pc'[p] # pc[p]
           /\ op[p] = "in_progress"
           /\ data[p][Slug(p)].status = "failed")
            => pc'[p] = "upd_unlock"
       /\ (pc[p] = "upd_close" /\ pc'[p] = "claimed" /\ cur[p] = "failed")
            => Records(file')[Slug(p)] = Rec("in_progress", p)]_vars

\* C6: after a process that wrote no done record itself is killed in the
\* middle of atomic_update_progress's truncate and rewrite, every done record
\* the store has held is still there once no live process is writing.
TerminalDurable ==
  \A p \in Procs :
    (/\ ~alive[p]
     /\ pc[p] \in {"upd_unlock", "upd_close"}
     /\ processed[p] = 0
     /\ Quiescent)
      => \A s \in Slugs :
           hist[s] = "done" => Records(file)[s].status = "done"

\* C7: once the store has held a record, an atomic_update_progress that finds
\* the file unparsable fails instead of going on with an empty table.
CorruptSurfaced ==
  [][\A p \in Procs :
       (/\ pc[p] = "upd_load" /\ pc'[p] # pc[p]
        /\ ~Parsable(file)
        /\ \E s \in Slugs : hist[s] # "none")
         => pc'[p] = "crashed"]_vars

\* C8: the steps of init_progress that create the file leave every record
\* the store holds in place.
CreationKeepsRecords ==
  [][\A p \in Procs :
       (pc[p] \in {"init_trunc", "init_write"} /\ pc'[p] # pc[p])
         => \A s \in Slugs :
              Records(file)[s] # NoRec => Records(file')[s] = Records(file)[s]]_vars

\* C9: a claim_library call that returns False has changed no record of the
\* store.
RefusedChangesNothing ==
  \A p \in Procs : pc[p] = "refused" => ~callChanged[p]

\* C10: process_library has been invoked exactly once for each claim that
\* returned True (the latest one excepted while main is between the return
\* and the call), and for no item whose claim returned False.
CallbackOnlyWhenGranted ==
  \A p \in Procs :
    /\ invoked[p] = IF pc[p] = "claimed"
                    THEN SubSeq(granted[p], 1, Len(granted[p]) - 1)
                    ELSE granted[p]
    /\ \A j, k \in 1..Len(invoked[p]) : invoked[p][j] = invoked[p][k] => j = k
    /\ refusedAt[p] \cap Range(invoked[p]) = {}

\* A run in which one claim was refused and another granted and processed.
CallbackWitness ==
  \E p \in Procs :
    /\ pc[p] = "finished"
    /\ refusedAt[p] = {1}
    /\ invoked[p] = << 2 >>

-----------------------------------------------------------------------------
(* The worker loop: outcomes, retries, failures, accounting *)

\* A store operation of the running iteration raised after process_library
\* had returned: main is in its except clause though nothing was raised by
\* process_library.
StoreFaulted(p) == handler[p] = "except" /\ result[p] # "raise"

IdempotentRerun ==
  \A p \in Procs :
    (allDoneAtStart[p] /\ alive[p]) =>
      /\ invoked[p] = << >>
      /\ granted[p] = << >>
      /\ ~callChanged[p]
      /\ processed[p] = 0 /\ failed[p] = 0
      /\ pc[p] = "finished" =>
           Len(to_process[p]) - processed[p] - failed[p]
             = Cardinality(refusedAt[p])

\* C13: within one run no position of the work list is claimed twice, no
\* two positions carry the same slug, and so neither claim_library nor
\* process_library is called twice for a slug.
NoRetryWithinRun ==
  \A p \in Procs :
    /\ \A j, k \in 1..Len(to_process[p]) :
         to_process[p][j] = to_process[p][k] => j = k
    /\ \A j, k \in 1..Len(granted[p]) : granted[p][j] = granted[p][k] => j = k
    /\ Range(granted[p]) \cap refusedAt[p] = {}
    /\ Range(granted[p]) \cup refusedAt[p] \subseteq 1..idx[p]
    /\ \A k \in 1..Len(granted[p]) : k > 1 => granted[p][k - 1] < granted[p][k]
    /\ Len(invoked[p]) <= Len(granted[p])

\* A run that marked its first item failed, went on and ended.
NoRetryWitness ==
  \E p \in Procs :
    /\ pc[p] = "finished"
    /\ Len(outcomes[p]) = 2
    /\ outcomes[p][1] = "failed"
    /\ granted[p] = << 1, 2 >>

\* The slugs for which this run has written a failed record.
OwnFailed(p) ==
  { to_process[p][granted[p][k]] :
      k \in { j \in 1..Len(outcomes[p]) : outcomes[p][j] = "failed" } }

StoreFailureAborts ==
  [][\A p \in Procs :
       (pc[p] = "lock" /\ pc'[p] \notin {"lock", "upd_load", "rd_load"})
         => pc'[p] = "crashed"]_vars

\* The positions of the work list whose claim has returned.
Attempted(p) == Range(granted[p]) \cup refusedAt[p]

\* C16, in every state: a failure of process_library is recorded as failed,
\* every position before the current one has been attempted, and a run that
\* has ended has attempted every position of its work list.
FailureIsolatedState ==
  \A p \in Procs :
    /\ (alive[p] /\ pc[p] = "marked" /\ result[p] \in {"False", "raise"})
         => data[p][Slug(p)] = Rec("failed", p)
    /\ 1..(idx[p] - 1) \subseteq Attempted(p)
    /\ pc[p] = "finished" => Attempted(p) = 1..Len(to_process[p])

\* C16, in every step: after the terminal write the loop goes on to the next
\* position, the write changes the record of no other slug in the table it
\* read, and the outcomes the run has recorded are kept as they were.
FailureIsolatedStep ==
  \A p \in Procs :
    /\ (pc[p] = "marked" /\ pc'[p] # "marked")
         => pc'[p] = "loop" /\ idx'[p] = idx[p] + 1
    /\ (pc[p] = "upd_decide" /\ pc'[p] = "upd_unlock")
         => \A s \in Slugs \ {Slug(p)} : data'[p][s] = data[p][s]
    /\ Len(outcomes'[p]) >= Len(outcomes[p])
    /\ SubSeq(outcomes'[p], 1, Len(outcomes[p])) = outcomes[p]

\* C16: when process_library raises or returns False the loop records failed
\* for that slug and goes on with the next item; the remaining items are all
\* attempted and no outcome recorded earlier is changed.
FailureIsolated == []FailureIsolatedState /\ [][FailureIsolatedStep]_vars

\* A run whose first item failed, whose second item was then processed and
\* marked done, and whose two records are in the store.
FailureIsolatedWitness ==
  \E p \in Procs :
    /\ pc[p] = "finished"
    /\ outcomes[p] = << "failed", "done" >>
    /\ Records(file)["a"] = Rec("failed", p)
    /\ Records(file)["b"] = Rec("done", p)

\* C17: with every process alive and none inside a store operation, a slug
\* that has had a record in the store still has one.
RecordsNeverDeleted ==
  (Quiescent /\ \A p \in Procs : alive[p])
    => \A s \in Slugs : hist[s] # "none" => Records(file)[s] # NoRec

\* C18: a mark_done or mark_failed call is never refused, and the table it
\* writes holds for the slug the given terminal status with the caller's
\* identity, whatever record it found there.
TerminalWritesUnconditional ==
  \A p \in Procs :
    (alive[p] /\ op[p] \in {"done", "failed"}) =>
      /\ pc[p] # "refused"
      /\ pc[p] \in {"upd_unlock", "upd_close", "marked"}
           => data[p][Slug(p)] = Rec(op[p], p)

\* A terminal write found the record of another instance and replaced it.
TerminalOverwroteForeign ==
  \E p \in Procs :
    /\ pc[p] = "marked"
    /\ replaced[p].instance \notin {0, p}
    /\ data[p][Slug(p)] = Rec(op[p], p)
    /\ Records(file)[Slug(p)] = Rec(op[p], p)

\* The number of terminal writes of this run that wrote status st.
Wrote(p, st) ==
  Cardinality({ k \in 1..Len(outcomes[p]) : outcomes[p][k] = st })

\* C19: at the head of the loop and at the end of the run, processed is the
\* number of items this run wrote done for and failed the number it wrote
\* failed for; at the end the printed Skipped, len(to_process) - processed -
\* failed, is the number of refused claims, so the three add up to the size
\* of the work set.
SummaryAccounting ==
  \A p \in Procs :
    (alive[p] /\ pc[p] \in {"loop", "finished"}) =>
      /\ processed[p] = Wrote(p, "done")
      /\ failed[p] = Wrote(p, "failed")
      /\ pc[p] = "finished" =>
           /\ Len(to_process[p]) - processed[p] - failed[p]
                = Cardinality(refusedAt[p])
           /\ processed[p] + failed[p] + Cardinality(refusedAt[p])
                = Len(to_process[p])

\* A run over two items that ended with one failed and one skipped.
SummaryWitness ==
  \E p \in Procs :
    /\ pc[p] = "finished"
    /\ Len(to_process[p]) = 2
    /\ processed[p] = 0
    /\ failed[p] = 1
    /\ Cardinality(refusedAt[p]) = 1

\* C20: the lock is held only between the flock and the unlock of
\* atomic_update_progress (exclusive) or atomic_read_progress (shared); a
\* process that is inside process_library, or anywhere else in main, holds
\* neither.
LockOnlyInsideStore ==
  \A p \in Procs :
    /\ lockEX = p
         => alive[p] /\ pc[p] \in {"upd_load", "upd_decide", "upd_unlock"}
    /\ p \in lockSH => alive[p] /\ pc[p] \in {"rd_load", "rd_unlock"}
    /\ pc[p] = "processing" => lockEX # p /\ p \notin lockSH

\* One process is inside process_library while another holds the exclusive
\* lock.
LockFreeWhileProcessing ==
  \E p, q \in Procs :
    /\ p # q
    /\ alive[p] /\ pc[p] = "processing"
    /\ lockEX = q

-----------------------------------------------------------------------------
(* Readers, order, frame, ownership *)

\* C21: a process that holds the shared lock of atomic_read_progress finds
\* a whole table in the file, never the file between a writer's truncate and
\* the end of its rewrite.
ReadersSeeWholeTable ==
  \A p \in Procs :
    (alive[p] /\ pc[p] = "rd_load") => Parsable(file)

\* C22: while nobody has been killed, the read that follows a refused claim
\* finds in the file a record of the slug with status in_progress, done or
\* failed; the slug is never absent from what it reads.
LoserSeesWinner ==
  \A p \in Procs :
    (pc[p] = "rd_load" /\ \A q \in Procs : alive[q])
      => Records(file)[Slug(p)].status \in {"in_progress", "done", "failed"}

\* The claim_library call of the current position has been issued and has not
\* returned.
ClaimInFlight(p) ==
  /\ op[p] = "in_progress"
  /\ pc[p] \in {"init_check", "init_trunc", "init_write", "lock", "upd_load",
                "upd_decide", "upd_unlock", "upd_close"}

\* C23: a run claims the positions of its work list in order: the positions
\* whose claim has returned are always an initial segment of the list, and
\* while the claim of a position is being made every earlier position has
\* either been refused and skipped or has had its terminal status written.
ListOrder ==
  \A p \in Procs :
    /\ 1..(idx[p] - 1) \subseteq Attempted(p)
    /\ Attempted(p) \subseteq 1..idx[p]
    /\ ClaimInFlight(p) =>
         /\ Attempted(p) = 1..(idx[p] - 1)
         /\ Len(outcomes[p]) = Len(granted[p])
         /\ Len(invoked[p]) = Len(granted[p])

\* The claim of the second item is being made after the first item's
\* terminal status was written.
ListOrderWitness ==
  \E p \in Procs :
    /\ alive[p] /\ pc[p] = "upd_decide" /\ op[p] = "in_progress"
    /\ idx[p] = 2
    /\ granted[p] = << 1 >>
    /\ Len(outcomes[p]) = 1

-----------------------------------------------------------------------------
(* The work enumeration *)

\* The tier get_library_tier gives entry k of the catalog.
TierAt(k) == get_library_tier(catalog[k], prodConfig)

\* The place of a slug in the catalog.
Position(s) == CHOOSE k \in 1..Len(catalog) : catalog[k].slug = s

\* C24: the selection of tier t holds the slugs of exactly the catalog items
\* whose tier is t, each once and in catalog order; for a catalog whose
\* items have the tiers 1, 2, 2, 3 the selection of tier 2 is the second and
\* the third item.
TierSelection ==
  \A t \in ran :
    LET s == selections[t] IN
    /\ \A i \in 1..Len(s) :
         \E k \in 1..Len(catalog) : catalog[k].slug = s[i] /\ TierAt(k) = t
    /\ \A k \in 1..Len(catalog) :
         TierAt(k) = t => \E i \in 1..Len(s) : s[i] = catalog[k].slug
    /\ \A i, j \in 1..Len(s) : i < j => Position(s[i]) < Position(s[j])
    /\ (Len(catalog) = 4 /\ t = 2
        /\ << TierAt(1), TierAt(2), TierAt(3), TierAt(4) >> = << 1, 2, 2, 3 >>)
         => s = << catalog[2].slug, catalog[3].slug >>

\* Tier 2 has been selected from a catalog tagged 1, 2, 2, 3 in its Tier
\* fields.
TierSelectionWitness ==
  /\ 2 \in ran
  /\ Len(catalog) = 4
  /\ << catalog[1].tier, catalog[2].tier, catalog[3].tier, catalog[4].tier >>
       = << {1}, {2}, {2}, {3} >>
  /\ prodConfig = [tier1 |-> {}, tier2 |-> {}, tier3 |-> {}]
  /\ selections[2] = << "b", "c" >>

\* The tiers whose list in the product configuration holds the slug.
Named(k) ==
  { j \in Tiers :
      catalog[k].slug \in (CASE j = 1 -> prodConfig.tier1
                             [] j = 2 -> prodConfig.tier2
                             [] OTHER -> prodConfig.tier3) }

\* C25: every catalog item has one tier in 1..3: a tier the configuration
\* names for it if it names any, else a tier its Tier field names if it
\* names any, else 3; and once the three tiers have been selected the three
\* selections are pairwise disjoint and together hold every item.
TiersPartition ==
  /\ \A k \in 1..Len(catalog) :
       /\ TierAt(k) \in Tiers
       /\ Named(k) # {} => TierAt(k) \in Named(k)
       /\ (Named(k) = {} /\ catalog[k].tier # {}) => TierAt(k) \in catalog[k].tier
       /\ (Named(k) = {} /\ catalog[k].tier = {}) => TierAt(k) = 3
  /\ ran = Tiers =>
       /\ \A t, u \in Tiers :
            t # u => Range(selections[t]) \cap Range(selections[u]) = {}
       /\ UNION { Range(selections[t]) : t \in Tiers }
            = { catalog[k].slug : k \in 1..Len(catalog) }
       /\ Len(selections[1]) + Len(selections[2]) + Len(selections[3])
            = Len(catalog)

\* All three tiers were selected from a catalog in which the configuration
\* overrides one item's Tier field and another item has neither.
TiersPartitionWitness ==
  /\ ran = Tiers
  /\ \A t \in Tiers : selections[t] # << >>
  /\ \E k \in 1..Len(catalog) :
       Named(k) # {} /\ catalog[k].tier # {} /\ Named(k) \cap catalog[k].tier = {}
  /\ \E k \in 1..Len(catalog) : Named(k) = {} /\ catalog[k].tier = {}

-----------------------------------------------------------------------------
(* Frame, ownership, completion *)

\* C26: when an update that writes returns, every other slug's record that
\* the call read from the store under its lock is in the file, unchanged.
WritesLeaveOthersAlone ==
  [][\A p \in Procs :
       (pc[p] = "upd_close" /\ pc'[p] \in {"claimed", "marked"})
         => \A s \in Slugs \ {Slug(p)} :
              data[p][s] # NoRec => Records(file')[s] = data[p][s]]_vars

\* C27: with no process killed, a slug that has been done is never failed
\* afterwards, and a record that reads in_progress names a process that holds
\* the claim on the slug, the only one that does.
OnlyHolderTerminates ==
  (\A p \in Procs : alive[p]) =>
    \A s \in Slugs :
      /\ hist[s] = "done" => Records(file)[s].status # "failed"
      /\ Records(file)[s].status = "in_progress" =>
           LET q == Records(file)[s].instance IN
           pc[q] # "crashed" =>
             /\ Holding(q, s)
             /\ \A r \in Procs \ {q} : ~Holding(r, s)

\* C28: when every run has ended, none killed or aborted, every slug of every
\* work list has a record whose status is done or failed.
BatchCompletion ==
  (\A p \in Procs : alive[p] /\ pc[p] = "finished") =>
    \A p \in Procs : \A k \in 1..Len(to_process[p]) :
      Records(file)[to_process[p][k]].status \in {"done", "failed"}

\* C29: a process blocked in flock eventually holds the lock, unless it is
\* killed or its run is ended by an error first.
LockEventuallyAcquired ==
  \A p \in Procs :
    (alive[p] /\ pc[p] = "lock")
      ~> (lockEX = p \/ p \in lockSH \/ ~alive[p] \/ pc[p] = "crashed")

\* A process whose claim was refused is blocked in the flock of its read
\* while the other process holds the exclusive lock again.
LockContended ==
  \E p, q \in Procs :
    /\ p # q
    /\ alive[p] /\ pc[p] = "lock" /\ op[p] = "read"
    /\ lockEX = q

\* Every attempt of call_gpt raised.
ThreeAttemptsExhausted == \A k \in 1..AttemptCount : inputs.gpt[k] = "raise"

\* C30, as stated: the item is recorded failed exactly when README generation
\* came back empty after the three attempts of call_gpt, or an exception left
\* process_library.
FailedAfterThreeAttempts ==
  at = "marked" =>
    (mark = "failed" <=>
       ((readme # "none" /\ ThreeAttemptsExhausted) \/ ret = "raise"))

\* C30, amended: the item is recorded failed exactly when generate_readme
\* returned empty text or an exception left process_library; the text is
\* empty when all three attempts of call_gpt raised or when the first attempt
\* that did not raise returned empty content; with a README text and no
\* exception from mkdir, write_text or the examples loop the item is recorded
\* done, whatever the migration guide, the examples list, the SERP step and
\* the enhancement step did.
FailedItemRule ==
  at = "marked" =>
    /\ mark \in {"done", "failed"}
    /\ mark = "failed" <=> (readme = "empty" \/ ret = "raise")
    /\ readme # "none" =>
         (readme = "empty" <=>
            \/ ThreeAttemptsExhausted
            \/ \E k \in 1..AttemptCount :
                 /\ inputs.gpt[k] = "empty"
                 /\ \A j \in 1..(k - 1) : inputs.gpt[j] = "raise")
    /\ (readme = "text" /\ inputs.io = "none" /\ inputs.examples # "malformed")
         => mark = "done"

\* An item is recorded failed although the first attempt of call_gpt did not
\* raise: it returned empty content, and nothing else went wrong.
FailedOnFirstAttempt ==
  /\ at = "marked"
  /\ mark = "failed"
  /\ inputs.gpt[1] = "empty"
  /\ inputs.io = "none"

=============================================================================
